---- MODULE Spec2Model ----
(***************************************************************************)
(* A model of myria/plans.py: the parallel-import plan builder             *)
(* (get_parallel_import_plan, _get_parallel_import_fragment, __increment)  *)
(* and the plan / fragment / operator views over a JSON plan document      *)
(* (MyriaPlan, MyriaFragment, MyriaOperator).                              *)
(*                                                                         *)
(* JSON objects (Python dicts) are functions from key strings to values.   *)
(* A leaf value carries its Python type: [t, n, s] with t the type tag,    *)
(* n the number of an int or bool (True is 1, False is 0, as in Python)    *)
(* and s the text of a str or the name of an opaque dict.                  *)
(***************************************************************************)
EXTENDS Integers, Sequences, FiniteSets, TLC

\* ------------------------------------------------------------------ bounds
MaxWork == 2
MaxFrags == 2
MaxWrites == 1

\* ------------------------------------------------------------------ values
I(n) == [t |-> "int", n |-> n, s |-> ""]
S(x) == [t |-> "str", n |-> 0, s |-> x]
B(b) == [t |-> "bool", n |-> IF b THEN 1 ELSE 0, s |-> ""]
D(x) == [t |-> "dict", n |-> 0, s |-> x]
None == [t |-> "None", n |-> 0, s |-> ""]

\* Python truth value of a leaf, as "x or y" tests it.
Truthy(v) ==
    CASE v.t = "None" -> FALSE
      [] v.t = "str" -> v.s # ""
      [] v.t = "int" -> v.n # 0
      [] v.t = "bool" -> v.n # 0
      [] OTHER -> TRUE

\* x or y
PyOr(x, y) == IF Truthy(x) THEN x ELSE y

\* isinstance(value, int): bool is a subclass of int in Python.
IsInstanceInt(v) == v.t \in {"int", "bool"}

\* a == b on leaves: numbers compare by number (True == 1), texts by text.
PyEq(a, b) ==
    IF IsInstanceInt(a) /\ IsInstanceInt(b) THEN a.n = b.n
    ELSE a = b

\* A keyword argument holding a dict or None.
NoneDict == [isNone |-> TRUE, d |-> <<>>]
SomeDict(f) == [isNone |-> FALSE, d |-> f]

\* params or {}
OrEmpty(p) == IF p.isNone \/ DOMAIN p.d = {} THEN <<>> ELSE p.d

\* A faulty d.update(other): keys already present keep their value.
dict_update_keep(d, other) ==
    [k \in DOMAIN d \cup DOMAIN other |-> IF k \in DOMAIN d THEN d[k] ELSE other[k]]

\* d.update(other): the keys of other are written over d.
dict_update(d, other) ==
    [k \in DOMAIN d \cup DOMAIN other |-> IF k \in DOMAIN other THEN other[k] ELSE d[k]]

\* d[item] = value
dict_setitem(d, item, value) ==
    [k \in DOMAIN d \cup {item} |-> IF k = item THEN value ELSE d[k]]

\* del d[key], for a key that is present
dict_delitem(d, key) == [k \in DOMAIN d \ {key} |-> d[k]]

\* ------------------------------------------------------------------ builder
DEFAULT_SCAN_TYPE == S("FileScan")
DEFAULT_INSERT_TYPE == S("DbInsert")

\* A faulty __increment: it returns the counter after the increment.
increment_post(value) == [taskid |-> value + 1, ret |-> value + 1]

\* __increment(value): value[0] += 1; return value[0] - 1
increment(value) == [taskid |-> value + 1, ret |-> (value + 1) - 1]

\* The scan operator of a fragment: the dict literal, then update().
scan_operator(opId, scan_type, schema, datasource, scan_parameters) ==
    dict_update([opId |-> I(opId),
                 opType |-> PyOr(scan_type, DEFAULT_SCAN_TYPE),
                 schema |-> schema,
                 source |-> D(datasource)],
                OrEmpty(scan_parameters))

\* A faulty insert operator: argChild is the counter less one, the insert's
\* own id.
insert_operator_self(opId, taskid, insert_type, relation, insert_parameters) ==
    dict_update([opId |-> I(opId),
                 opType |-> PyOr(insert_type, DEFAULT_INSERT_TYPE),
                 argChild |-> I(taskid - 1),
                 argOverwriteTable |-> B(TRUE),
                 relationKey |-> relation],
                OrEmpty(insert_parameters))

\* The insert operator of a fragment: the dict literal, then update();
\* taskid is the counter after both ids were taken.
insert_operator(opId, taskid, insert_type, relation, insert_parameters) ==
    dict_update([opId |-> I(opId),
                 opType |-> PyOr(insert_type, DEFAULT_INSERT_TYPE),
                 argChild |-> I(taskid - 2),
                 argOverwriteTable |-> B(TRUE),
                 relationKey |-> relation],
                OrEmpty(insert_parameters))

\* A faulty fragment builder: the operators are listed insert first.
get_parallel_import_fragment_swapped(taskid, schema, relation, scan_type, insert_type, scan_parameters, insert_parameters, assignment) ==
    LET i1 == increment(taskid)
        i2 == increment(i1.taskid)
    IN [taskid |-> i2.taskid,
        fragment |-> [overrideWorkers |-> <<assignment[1]>>,
                      operators |-> <<insert_operator(i2.ret, i2.taskid, insert_type, relation, insert_parameters),
                                      scan_operator(i1.ret, scan_type, schema, assignment[2], scan_parameters)>>]]

\* _get_parallel_import_fragment: the counter after the call and the fragment.
get_parallel_import_fragment(taskid, schema, relation, scan_type, insert_type, scan_parameters, insert_parameters, assignment) ==
    LET worker_id == assignment[1]
        datasource == assignment[2]
        i1 == increment(taskid)
        scan == scan_operator(i1.ret, scan_type, schema, datasource, scan_parameters)
        i2 == increment(i1.taskid)
        insert == insert_operator(i2.ret, i2.taskid, insert_type, relation, insert_parameters)
    IN [taskid |-> i2.taskid,
        fragment |-> [overrideWorkers |-> <<worker_id>>,
                      operators |-> <<scan, insert>>]]

\* map(partial(_get_parallel_import_fragment, taskid, ...), work): the
\* fragments of work[n..], the one counter threaded through the calls.
RECURSIVE map_fragments(_, _, _, _, _, _, _, _, _)
map_fragments(taskid, schema, relation, scan_type, insert_type, scan_parameters, insert_parameters, work, n) ==
    IF n > Len(work) THEN <<>>
    ELSE LET r == get_parallel_import_fragment(taskid, schema, relation, scan_type,
                      insert_type, scan_parameters, insert_parameters, work[n])
         IN <<r.fragment>> \o map_fragments(r.taskid, schema, relation, scan_type,
                      insert_type, scan_parameters, insert_parameters, work, n + 1)

\* get_parallel_import_plan: the counter is a fresh [0] in every call.
get_parallel_import_plan(schema, work, relation, text, scan_parameters, insert_parameters, scan_type, insert_type) ==
    [fragments |-> map_fragments(0, schema, relation, scan_type, insert_type,
                                 scan_parameters, insert_parameters, work, 1),
     logicalRa |-> text,
     rawQuery |-> text]

\* ------------------------------------------------------------------ inputs
Schema == D("schema")
Relation == D("R")
Text == ""

\* (worker id, data source) pairs, and work: the lists of them
Assignments == {<<1, "srcA">>, <<1, "srcB">>, <<2, "srcA">>}
WorkLists == UNION {[1..n -> Assignments] : n \in 0..MaxWork}

\* The dicts over a choice of keys, each key with the value given for it.
DictsOver(vals) == {[k \in K |-> vals[k]] : K \in SUBSET DOMAIN vals}

ScanOverrides == [opId |-> I(0), opType |-> S("HdfsScan"), skip |-> I(1)]
InsertOverrides == [opId |-> I(0), opType |-> S("DbInsertTemp"), argChild |-> I(0)]

ScanParameters == {NoneDict} \cup {SomeDict(d) : d \in DictsOver(ScanOverrides)}
InsertParameters == {NoneDict} \cup {SomeDict(d) : d \in DictsOver(InsertOverrides)}
ScanTypes == {None, S(""), S("TipsyFileScan")}
InsertTypes == {None, S("DbInsertTemp")}

\* The keyword arguments of a call
Keywords ==
    [scan_parameters : ScanParameters, insert_parameters : InsertParameters,
     scan_type : ScanTypes, insert_type : InsertTypes]
NoKeywords ==
    [scan_parameters |-> NoneDict, insert_parameters |-> NoneDict,
     scan_type |-> None, insert_type |-> None]

\* A plan document in the shape MyriaPlan reads: the fragments under 'plan'.
PlanDocument(fragments) ==
    [plan |-> [type |-> "SubQuery", fragments |-> fragments],
     language |-> "myrial", profilingMode |-> "NONE", rawQuery |-> Text, logicalRa |-> Text]

\* The documents a plan view starts from: well-formed plans of up to
\* MaxFrags fragments, fragment i run by worker i.
InitialDocuments ==
    {PlanDocument(get_parallel_import_plan(Schema, [i \in 1..n |-> <<i, "srcA">>], Relation,
                                           Text, NoneDict, NoneDict, None, None).fragments) :
        n \in 0..MaxFrags}

\* The keys written and deleted through operator views, the values written,
\* and the keys read and tested for membership.
ViewKeys == {"opId", "argChild", "child2"}
ReadKeys == {"argChild"}
ViewValues == {I(0), I(7), B(TRUE), S("x")}

\* ------------------------------------------------------------------ key text
\* The characters of every property key the model uses.
KeyChars(key) ==
    CASE key = "opId" -> <<"o", "p", "I", "d">>
      [] key = "opType" -> <<"o", "p", "T", "y", "p", "e">>
      [] key = "opName" -> <<"o", "p", "N", "a", "m", "e">>
      [] key = "schema" -> <<"s", "c", "h", "e", "m", "a">>
      [] key = "source" -> <<"s", "o", "u", "r", "c", "e">>
      [] key = "skip" -> <<"s", "k", "i", "p">>
      [] key = "argChild" -> <<"a", "r", "g", "C", "h", "i", "l", "d">>
      [] key = "child2" -> <<"c", "h", "i", "l", "d", "2">>
      [] key = "relationKey" -> <<"r", "e", "l", "a", "t", "i", "o", "n", "K", "e", "y">>
      [] key = "argOverwriteTable" -> <<"a", "r", "g", "O", "v", "e", "r", "w", "r", "i", "t", "e", "T", "a", "b", "l", "e">>

LowerCase == <<"a", "b", "c", "d", "e", "f", "g", "h", "i", "j", "k", "l", "m", "n", "o", "p", "q", "r", "s", "t", "u", "v", "w", "x", "y", "z">>
UpperCase == <<"A", "B", "C", "D", "E", "F", "G", "H", "I", "J", "K", "L", "M", "N", "O", "P", "Q", "R", "S", "T", "U", "V", "W", "X", "Y", "Z">>

\* str.upper() on one character
UpperChar(c) ==
    IF \E i \in DOMAIN LowerCase : LowerCase[i] = c
    THEN UpperCase[CHOOSE i \in DOMAIN LowerCase : LowerCase[i] = c]
    ELSE c

\* str.upper()
Upper(cs) == [i \in DOMAIN cs |-> UpperChar(cs[i])]

\* needle in text, on character sequences
Contains(needle, text) ==
    \E i \in 1..(Len(text) - Len(needle) + 1) :
        SubSeq(text, i, i + Len(needle) - 1) = needle

\* A faulty key test: the key is searched as written, without upper().
IsChildKeyCaseSensitive(key) == Contains(<<"C", "h", "i", "l", "d">>, KeyChars(key))

\* 'CHILD' in key.upper()
IsChildKey(key) == Contains(<<"C", "H", "I", "L", "D">>, Upper(KeyChars(key)))

\* Every property key of the model, and those of them _child_ids selects.
AllKeys == {"opId", "opType", "opName", "schema", "source", "skip", "argChild", "child2", "relationKey", "argOverwriteTable"}
ChildKeys == {key \in AllKeys : IsChildKey(key)}

\* ------------------------------------------------------------------ views
\* A view is [value, path]: the JSON value it wraps, as the document holds
\* it when the view is made, and its place in the document (fragment index,
\* then operator index).
View(value, path) == [value |-> value, path |-> path]

\* jsonpath Fields(name).find on a JSON object: the field, or no match.
Fields(value, name) == IF name \in DOMAIN value THEN <<value[name]>> ELSE <<>>

\* jsonpath '$.plan.fragments.[*]' on the document
FindFragments(json) ==
    LET plans == Fields(json, "plan")
        lists == IF plans = <<>> THEN <<>> ELSE Fields(plans[1], "fragments")
    IN IF lists = <<>> THEN <<>> ELSE lists[1]

\* MyriaPlan.fragments
MyriaPlan_fragments(json) ==
    LET fs == FindFragments(json)
    IN [i \in DOMAIN fs |-> View(fs[i], <<i>>)]

\* jsonpath 'operators[*]' below one fragment
FindOperators(fragment) ==
    LET lists == Fields(fragment, "operators")
    IN IF lists = <<>> THEN <<>> ELSE lists[1]

\* MyriaFragment.operators
MyriaFragment_operators(fragment) ==
    LET os == FindOperators(fragment.value)
    IN [o \in DOMAIN os |-> View(os[o], fragment.path \o <<o>>)]

\* jsonpath '$.plan.fragments.[*].operators.[*]': fragments in document
\* order, the operators of each in their order.
RECURSIVE FlattenOperators(_, _)
FlattenOperators(fragments, f) ==
    IF f > Len(fragments) THEN <<>>
    ELSE MyriaFragment_operators(fragments[f]) \o FlattenOperators(fragments, f + 1)

\* A faulty operator query: the operators are those of the document as it
\* was when the plan view was made.
MyriaPlan_operators_cached(json) ==
    LET first == CHOOSE d \in InitialDocuments :
                     Len(FindFragments(d)) = Len(FindFragments(json))
    IN FlattenOperators(MyriaPlan_fragments(first), 1)

\* MyriaPlan.operators
MyriaPlan_operators(json) == FlattenOperators(MyriaPlan_fragments(json), 1)

\* The outcome of a call: a value, or the exception it raised.
Ok(val) == [ok |-> TRUE, err |-> "", val |-> val]
Raise(err) == [ok |-> FALSE, err |-> err, val |-> <<>>]

\* MyriaOperator.__getitem__: self.value[item]
MyriaOperator_getitem(value, item) ==
    IF item \in DOMAIN value THEN Ok(value[item]) ELSE Raise("KeyError")

\* MyriaOperator.__contains__: self.value.contains(item); a dict has no
\* attribute of that name.
MyriaOperator_contains(value, item) == Raise("AttributeError")

\* MyriaFragment.workers
MyriaFragment_workers(value) ==
    IF "overrideWorkers" \in DOMAIN value THEN Ok(value.overrideWorkers)
    ELSE Raise("KeyError")

\* MyriaOperator.id
MyriaOperator_id(value) == MyriaOperator_getitem(value, "opId")

\* MyriaOperator._child_ids: the values the generator yields.
child_ids(value) ==
    {value[key] : key \in {k \in DOMAIN value \cap ChildKeys : IsInstanceInt(value[k])}}

\* id in ids, for the ids a _child_ids generator yields
IdIn(id, ids) == \E c \in ids : PyEq(id, c)

\* MyriaOperator.children, read to its end: the operators of the plan, in
\* plan order, whose id is among the child ids; reading the id of an
\* operator that has none raises.
MyriaOperator_children(value, json) ==
    LET ops == MyriaPlan_operators(json)
        ids == child_ids(value)
    IN IF \E i \in DOMAIN ops : ~MyriaOperator_id(ops[i].value).ok
       THEN Raise("KeyError")
       ELSE Ok(SelectSeq(ops, LAMBDA op : IdIn(op.value.opId, ids)))

\* The steps of MyriaOperator.parent: step <<i, k>> has op = ops[i] in the
\* outer loop and child = ops[k] in op.children; ids[i] holds what
\* ops[i]._child_ids yields. A step yields a child when ops[k] has an id
\* and it is among ids[i]; it stops the search when reading an id raises
\* or when the child's id is the id of self.
YieldsChild(ops, ids, i, k) ==
    "opId" \in DOMAIN ops[k].value /\ IdIn(ops[k].value.opId, ids[i])

StepStops(value, ops, ids, i, k) ==
    \/ "opId" \notin DOMAIN ops[k].value
    \/ /\ YieldsChild(ops, ids, i, k)
       /\ ("opId" \notin DOMAIN value \/ PyEq(value.opId, ops[k].value.opId))

StepOutcome(value, ops, i, k) ==
    IF "opId" \notin DOMAIN ops[k].value \/ "opId" \notin DOMAIN value
    THEN Raise("KeyError")
    ELSE Ok(<<ops[i]>>)

\* The search of MyriaOperator.parent: the outcome of the first step that
\* stops it, in the order the nested generators take the steps, and None
\* (no operator) when no step does.
ParentSearch(value, ops, ids) ==
    LET stops == {s \in (DOMAIN ops) \X (DOMAIN ops) : StepStops(value, ops, ids, s[1], s[2])}
    IN IF stops = {} THEN Ok(<<>>)
       ELSE LET first == CHOOSE s \in stops : \A r \in stops :
                             s[1] < r[1] \/ (s[1] = r[1] /\ s[2] <= r[2])
            IN StepOutcome(value, ops, first[1], first[2])

\* A faulty parent: the last claiming operator wins.
RECURSIVE ParentSearchLast(_, _, _)
ParentSearchLast(value, ops, n) ==
    IF n < 1 THEN Ok(<<>>)
    ELSE IF \E k \in DOMAIN ops : IdIn(ops[k].value.opId, child_ids(ops[n].value))
                                   /\ PyEq(value.opId, ops[k].value.opId)
         THEN Ok(<<ops[n]>>)
         ELSE ParentSearchLast(value, ops, n - 1)

MyriaOperator_parent_last(value, json) ==
    LET ops == MyriaPlan_operators(json)
    IN IF \E i \in DOMAIN ops : ~MyriaOperator_id(ops[i].value).ok
       THEN Raise("KeyError")
       ELSE ParentSearchLast(value, ops, Len(ops))

\* MyriaOperator.parent: next(..., None); no operator is <<>>, an operator
\* is the one-element sequence holding its view.
MyriaOperator_parent(value, json) ==
    LET ops == MyriaPlan_operators(json)
        ids == [i \in DOMAIN ops |-> child_ids(ops[i].value)]
    IN ParentSearch(value, ops, ids)

\* ------------------------------------------------------------------ state
VARIABLES json, call, ret, writes

vars == <<json, call, ret, writes>>

\* json: the document the MyriaPlan wraps (self.json).
\* call: the work list and keyword arguments of get_parallel_import_plan;
\*       fresh while json is the document that call returned.
\* ret: the last operation, the view it was applied to and its outcome.
\* writes: the number of writes and deletes made on the document.

Ret(op, path, key, out) == [op |-> op, path |-> path, key |-> key, out |-> out]

\* A plan view over a document received already formed.
InitView ==
    /\ json \in InitialDocuments
    /\ call = [fresh |-> FALSE, work |-> <<>>, kw |-> NoKeywords]
    /\ ret = Ret("MyriaPlan", <<>>, "", Ok(<<>>))
    /\ writes = 0

\* A caller of the builder with its keyword arguments chosen, before the
\* first call: the plan view wraps an empty document.
InitBuilder ==
    /\ json = <<>>
    /\ \E kw \in Keywords : call = [fresh |-> FALSE, work |-> <<>>, kw |-> kw]
    /\ ret = Ret("MyriaPlan", <<>>, "", Ok(<<>>))
    /\ writes = 0

\* MyriaPlan(get_parallel_import_plan(schema, work, relation, ...))
Build(work) ==
    /\ json' = get_parallel_import_plan(Schema, work, Relation, Text,
                                        call.kw.scan_parameters, call.kw.insert_parameters,
                                        call.kw.scan_type, call.kw.insert_type)
    /\ call' = [call EXCEPT !.fresh = TRUE, !.work = work]
    /\ ret' = Ret("get_parallel_import_plan", <<>>, "", Ok(<<>>))
    /\ writes' = 0

\* list(plan.fragments)
PlanFragments ==
    /\ ret' = Ret("fragments", <<>>, "", Ok(MyriaPlan_fragments(json)))
    /\ UNCHANGED <<json, call, writes>>

\* list(plan.operators)
PlanOperators ==
    /\ ret' = Ret("operators", <<>>, "", Ok(MyriaPlan_operators(json)))
    /\ UNCHANGED <<json, call, writes>>

\* list(fragment.operators), fragment the f-th of plan.fragments
FragmentOperators(f) ==
    /\ ret' = Ret("fragment.operators", <<f>>, "",
                  Ok(MyriaFragment_operators(MyriaPlan_fragments(json)[f])))
    /\ UNCHANGED <<json, call, writes>>

\* fragment.workers
FragmentWorkers(f) ==
    /\ ret' = Ret("workers", <<f>>, "",
                  MyriaFragment_workers(MyriaPlan_fragments(json)[f].value))
    /\ UNCHANGED <<json, call, writes>>

\* list(op.children), op the p-th of plan.operators
OperatorChildren(p) ==
    /\ LET op == MyriaPlan_operators(json)[p]
       IN ret' = Ret("children", op.path, "", MyriaOperator_children(op.value, json))
    /\ UNCHANGED <<json, call, writes>>

\* op.parent
OperatorParent(p) ==
    /\ LET op == MyriaPlan_operators(json)[p]
       IN ret' = Ret("parent", op.path, "", MyriaOperator_parent(op.value, json))
    /\ UNCHANGED <<json, call, writes>>

\* op[key]
OperatorGetItem(p, key) ==
    /\ LET op == MyriaPlan_operators(json)[p]
       IN ret' = Ret("__getitem__", op.path, key, MyriaOperator_getitem(op.value, key))
    /\ UNCHANGED <<json, call, writes>>

\* key in op
OperatorContains(p, key) ==
    /\ LET op == MyriaPlan_operators(json)[p]
       IN ret' = Ret("__contains__", op.path, key, MyriaOperator_contains(op.value, key))
    /\ UNCHANGED <<json, call, writes>>

\* op[key] = value: the write lands in the document's own dict.
OperatorSetItem(p, key, value) ==
    /\ writes < MaxWrites
    /\ LET op == MyriaPlan_operators(json)[p]
           f == op.path[1]
           o == op.path[2]
       IN /\ json' = [json EXCEPT !.plan.fragments[f].operators[o] =
                                       dict_setitem(@, key, value)]
          /\ ret' = Ret("__setitem__", op.path, key, Ok(value))
    /\ call' = [call EXCEPT !.fresh = FALSE]
    /\ writes' = writes + 1

\* del op[key]
OperatorDelItem(p, key) ==
    /\ writes < MaxWrites
    /\ LET op == MyriaPlan_operators(json)[p]
           f == op.path[1]
           o == op.path[2]
       IN IF key \in DOMAIN op.value
          THEN /\ json' = [json EXCEPT !.plan.fragments[f].operators[o] =
                                            dict_delitem(@, key)]
               /\ ret' = Ret("__delitem__", op.path, key, Ok(<<>>))
               /\ call' = [call EXCEPT !.fresh = FALSE]
               /\ writes' = writes + 1
          ELSE /\ ret' = Ret("__delitem__", op.path, key, Raise("KeyError"))
               /\ UNCHANGED <<json, call, writes>>

\* The places of plan.fragments and of plan.operators
FragmentPlaces == DOMAIN MyriaPlan_fragments(json)
OperatorPlaces == DOMAIN MyriaPlan_operators(json)

NextBuilder ==
    \/ \E work \in WorkLists : Build(work)
    \/ PlanFragments
    \/ PlanOperators

NextView ==
    \/ PlanFragments
    \/ PlanOperators
    \/ \E f \in FragmentPlaces : FragmentOperators(f)
    \/ \E f \in FragmentPlaces : FragmentWorkers(f)
    \/ \E p \in OperatorPlaces : OperatorChildren(p)
    \/ \E p \in OperatorPlaces : OperatorParent(p)
    \/ \E p \in OperatorPlaces, key \in ReadKeys : OperatorGetItem(p, key)
    \/ \E p \in OperatorPlaces, key \in ReadKeys : OperatorContains(p, key)
    \/ \E p \in OperatorPlaces, key \in ViewKeys, value \in ViewValues : OperatorSetItem(p, key, value)
    \/ \E p \in OperatorPlaces, key \in ViewKeys : OperatorDelItem(p, key)

\* The builder and the plan view over what it returns.
SpecBuilder == InitBuilder /\ [][NextBuilder]_vars

\* The views over a plan document that is written through them.
SpecView == InitView /\ [][NextView]_vars

\* ------------------------------------------------------------------ claims
\* What the claims read off a built document and off the call's arguments.

\* The fragments as the builder returned them.
BuiltFragments == json.fragments

\* The operator ids of the built document, fragment by fragment, scan then
\* insert.
BuiltIds == [j \in 1..(2 * Len(BuiltFragments)) |-> BuiltFragments[(j + 1) \div 2].operators[2 - (j % 2)].opId]

\* The places <<fragment, operator>> of the built document whose operator
\* has the given id.
BuiltPlacesWithId(id) ==
    {pl \in (1..Len(BuiltFragments)) \X {1, 2} :
        BuiltFragments[pl[1]].operators[pl[2]].opId = id}

ScanSupplied == IF call.kw.scan_parameters.isNone THEN {} ELSE DOMAIN call.kw.scan_parameters.d
InsertSupplied == IF call.kw.insert_parameters.isNone THEN {} ELSE DOMAIN call.kw.insert_parameters.d
NoOverrides == ScanSupplied = {} /\ InsertSupplied = {}

\* C1: a call with N work entries and no property overrides returns N
\* fragments and 2N operators whose ids are exactly 0 .. 2N-1, without
\* duplicates and strictly increasing in work order (scan, then insert),
\* whatever was built before.
C1_IdsContiguous ==
    (call.fresh /\ NoOverrides) =>
        LET N == Len(call.work)
        IN /\ Len(BuiltFragments) = N
           /\ \A i \in 1..N : Len(BuiltFragments[i].operators) = 2
           /\ Len(BuiltIds) = 2 * N
           /\ {BuiltIds[j] : j \in 1..(2 * N)} = {I(n) : n \in 0..(2 * N - 1)}
           /\ \A a, b \in 1..(2 * N) : a < b => BuiltIds[a].n < BuiltIds[b].n

C1_Witness ==
    /\ call.fresh /\ NoOverrides
    /\ Len(call.work) >= 2
    /\ BuiltIds[4] = I(3)

\* C2 as stated: in every built plan, every fragment's insert has argChild
\* equal to the opId of the same fragment's scan, and that id is the id of
\* that scan alone.
C2_ChildIsOwnScan ==
    call.fresh =>
        \A i \in 1..Len(BuiltFragments) :
            LET scan == BuiltFragments[i].operators[1]
                insert == BuiltFragments[i].operators[2]
            IN /\ insert.argChild = scan.opId
               /\ BuiltPlacesWithId(insert.argChild) = {<<i, 1>>}

\* C2 amended: the same, for the calls whose scan_parameters supply no opId
\* and whose insert_parameters supply neither opId nor argChild.
C2_ChildIsOwnScanUnlessOverridden ==
    (call.fresh /\ "opId" \notin ScanSupplied /\ InsertSupplied \cap {"opId", "argChild"} = {}) =>
        \A i \in 1..Len(BuiltFragments) :
            LET scan == BuiltFragments[i].operators[1]
                insert == BuiltFragments[i].operators[2]
            IN /\ insert.argChild = scan.opId
               /\ BuiltPlacesWithId(insert.argChild) = {<<i, 1>>}

C2_Witness ==
    /\ call.fresh
    /\ ScanSupplied = {"opType", "skip"} /\ InsertSupplied = {"opType"}
    /\ Len(call.work) >= 2
    /\ BuiltFragments[2].operators[2].argChild = I(2)

\* C3: one fragment per work entry, in input order; fragment i is run by
\* the one worker of entry i and holds the scan of entry i's data source,
\* then the insert.
C3_FragmentPerEntry ==
    call.fresh =>
        /\ Len(BuiltFragments) = Len(call.work)
        /\ \A i \in 1..Len(call.work) :
              LET fragment == BuiltFragments[i]
              IN /\ fragment.overrideWorkers = <<call.work[i][1]>>
                 /\ Len(fragment.operators) = 2
                 /\ {"schema", "source"} \subseteq DOMAIN fragment.operators[1]
                 /\ fragment.operators[1].source = D(call.work[i][2])
                 /\ "relationKey" \notin DOMAIN fragment.operators[1]
                 /\ {"relationKey", "argOverwriteTable"} \subseteq DOMAIN fragment.operators[2]
                 /\ "source" \notin DOMAIN fragment.operators[2]

C3_Witness ==
    /\ call.fresh
    /\ Len(call.work) = 2
    /\ call.work[1][1] = call.work[2][1]
    /\ call.work[1][2] # call.work[2][2]
    /\ Len(BuiltFragments) = 2
    /\ BuiltFragments[1].overrideWorkers = BuiltFragments[2].overrideWorkers

\* C4: the plan view over the built document shows as many fragments as
\* the work list has entries, with the workers and the operator ids the
\* builder wrote.
C4_RoundTrip ==
    call.fresh =>
        /\ Len(MyriaPlan_fragments(json)) = Len(call.work)
        /\ \A i \in DOMAIN MyriaPlan_fragments(json) :
              MyriaFragment_workers(MyriaPlan_fragments(json)[i].value) = Ok(<<call.work[i][1]>>)
        /\ [p \in DOMAIN MyriaPlan_operators(json) |-> MyriaPlan_operators(json)[p].value.opId] = BuiltIds

\* C5: in a freshly built plan under the plan view, no operator is the
\* parent of an insert, and the parent of a scan is the insert of its
\* fragment.
C5_FreshParents ==
    (call.fresh /\ NoOverrides) =>
        \A i \in 1..Len(BuiltFragments) :
            LET scan == BuiltFragments[i].operators[1]
                insert == BuiltFragments[i].operators[2]
            IN /\ MyriaOperator_parent(insert, json) = Ok(<<>>)
               /\ MyriaOperator_parent(scan, json) = Ok(<<View(insert, <<i, 2>>)>>)

\* The type the claim expects where the caller supplies no opType.
ExpectedType(given, default) == IF given \in {None, S("")} THEN S(default) ELSE given

\* C6: every supplied key is in every generated operator with the
\* caller's value, whatever the computed field of that name; the keys not
\* supplied keep their computed values, the ids still advancing by two per
\* fragment.
C6_OverridesLast ==
    call.fresh =>
        /\ Len(BuiltFragments) = Len(call.work)
        /\ \A i \in 1..Len(BuiltFragments) :
              LET scan == BuiltFragments[i].operators[1]
                  insert == BuiltFragments[i].operators[2]
              IN /\ DOMAIN scan = {"opId", "opType", "schema", "source"} \cup ScanSupplied
                 /\ DOMAIN insert = {"opId", "opType", "argChild", "argOverwriteTable", "relationKey"} \cup InsertSupplied
                 /\ \A k \in ScanSupplied : scan[k] = call.kw.scan_parameters.d[k]
                 /\ \A k \in InsertSupplied : insert[k] = call.kw.insert_parameters.d[k]
                 /\ "opId" \notin ScanSupplied => scan.opId = I(2 * (i - 1))
                 /\ "opType" \notin ScanSupplied => scan.opType = ExpectedType(call.kw.scan_type, "FileScan")
                 /\ scan.schema = Schema /\ scan.source = D(call.work[i][2])
                 /\ "opId" \notin InsertSupplied => insert.opId = I(2 * (i - 1) + 1)
                 /\ "opType" \notin InsertSupplied => insert.opType = ExpectedType(call.kw.insert_type, "DbInsert")
                 /\ "argChild" \notin InsertSupplied => insert.argChild = I(2 * (i - 1))
                 /\ insert.argOverwriteTable = B(TRUE) /\ insert.relationKey = Relation

C6_Witness ==
    /\ call.fresh
    /\ Len(call.work) >= 2
    /\ ScanSupplied = {"opId", "opType"} /\ call.kw.scan_type = S("TipsyFileScan")
    /\ InsertSupplied = {"argChild", "opType"} /\ call.kw.insert_type = S("DbInsertTemp")
    /\ BuiltFragments[2].operators[1].opType = S("HdfsScan")
    /\ BuiltFragments[2].operators[1].opId = I(0)
    /\ BuiltFragments[2].operators[2].opId = I(3)
    /\ BuiltFragments[2].operators[2].argChild = I(0)

\* What the claims read off a plan document d that a view was applied to.

\* The places <<fragment, operator>> of d, and the operator at a place.
DocPaths(d) ==
    UNION {{<<f, o>> : o \in 1..Len(d.plan.fragments[f].operators)} :
              f \in 1..Len(d.plan.fragments)}
DocOperator(d, path) == d.plan.fragments[path[1]].operators[path[2]]

\* Plan enumeration order: fragments in document order, then operators in
\* the fragment's order.
PathBefore(a, b) == a[1] < b[1] \/ (a[1] = b[1] /\ a[2] < b[2])

\* seq lists, in plan order and once each, views of the operators that d
\* holds at the given places.
ListsOperators(seq, d, paths) ==
    /\ {seq[i].path : i \in DOMAIN seq} = paths
    /\ \A i \in DOMAIN seq : seq[i].value = DocOperator(d, seq[i].path)
    /\ \A i, j \in DOMAIN seq : i < j => PathBefore(seq[i].path, seq[j].path)

\* Every operator of d has an id.
HasIds(d) == \A q \in DocPaths(d) : "opId" \in DOMAIN DocOperator(d, q)

\* The keys of the model that contain CHILD in some casing, and the
\* integers (Python's bool is one of its integer types: True is 1).
NamedChildKeys == {"argChild", "child2"}
IsInteger(v) == v.t \in {"int", "bool"}

\* The integers an operator refers to under its child keys.
References(x) == {x[k].n : k \in {k \in DOMAIN x \cap NamedChildKeys : IsInteger(x[k])}}

\* The places of the operators of d that x refers to, and of those that
\* refer to x.
ReferredPlaces(d, x) ==
    {q \in DocPaths(d) : IsInteger(DocOperator(d, q).opId)
                          /\ DocOperator(d, q).opId.n \in References(x)}
ReferringPlaces(d, x) ==
    {q \in DocPaths(d) : IsInteger(x.opId) /\ x.opId.n \in References(DocOperator(d, q))}

\* The view at the first of some places of d, as a parent is returned.
FirstAt(d, places) ==
    IF places = {} THEN <<>>
    ELSE LET m == CHOOSE q \in places : \A r \in places \ {q} : PathBefore(q, r)
         IN <<View(DocOperator(d, m), m)>>

\* C7: key in op completes and is true exactly when the key is present;
\* op[key] returns the stored value of a present key and raises KeyError
\* for an absent one.
C7_MembershipGuard ==
    /\ ret.op = "__contains__" =>
          /\ ret.out.ok
          /\ ret.out.val = (ret.key \in DOMAIN DocOperator(json, ret.path))
    /\ ret.op = "__getitem__" =>
          IF ret.key \in DOMAIN DocOperator(json, ret.path)
          THEN ret.out.ok /\ ret.out.val = DocOperator(json, ret.path)[ret.key]
          ELSE ~ret.out.ok /\ ret.out.err = "KeyError"

\* C8: a step that enumerates fragments or operators, or derives children
\* or a parent, leaves the document as it is, and what it returns is read
\* off the document as it is now, every earlier write and delete included.
C8_NeverCached ==
    [][LET d == json'
           r == ret'
       IN /\ r.op \in {"fragments", "operators", "fragment.operators", "children", "parent"}
                => json' = json
          /\ r.op = "fragments" =>
                /\ r.out.ok /\ Len(r.out.val) = Len(d.plan.fragments)
                /\ \A i \in DOMAIN r.out.val :
                      r.out.val[i] = View(d.plan.fragments[i], <<i>>)
          /\ r.op = "operators" =>
                r.out.ok /\ ListsOperators(r.out.val, d, DocPaths(d))
          /\ r.op = "fragment.operators" =>
                r.out.ok /\ ListsOperators(r.out.val, d, {q \in DocPaths(d) : q[1] = r.path[1]})
          /\ (r.op = "children" /\ HasIds(d)) =>
                r.out.ok /\ ListsOperators(r.out.val, d, ReferredPlaces(d, DocOperator(d, r.path)))
          /\ (r.op = "parent" /\ HasIds(d)) =>
                r.out.ok /\ r.out.val = FirstAt(d, ReferringPlaces(d, DocOperator(d, r.path)))
      ]_vars

C8_Witness ==
    /\ writes >= 1
    /\ ret.op = "children" /\ ret.path = <<1, 1>> /\ ret.out.ok
    /\ "child2" \in DOMAIN DocOperator(json, <<1, 1>>)
    /\ Len(ret.out.val) = 1
    /\ "child2" \in DOMAIN ret.out.val[1].value

\* C9: the children of an operator are the operators of the plan whose id
\* is the integer value of one of its properties with CHILD in the key, in
\* any casing; each such operator once, and nothing for an id no operator
\* has, for a key without CHILD or for a value that is no integer.
C9_Children ==
    (ret.op = "children" /\ HasIds(json)) =>
        /\ ret.out.ok
        /\ ListsOperators(ret.out.val, json, ReferredPlaces(json, DocOperator(json, ret.path)))

C9_Witness ==
    /\ ret.op = "children" /\ ret.out.ok
    /\ LET x == DocOperator(json, ret.path)
       IN /\ {"opId", "argChild", "child2"} \subseteq DOMAIN x
          /\ x.opId = I(1) /\ x.argChild = I(0) /\ x.child2 = I(0)
    /\ Len(ret.out.val) = 1
    /\ ret.out.val[1].path = <<1, 1>>

\* C10: the parent of an operator is none when no operator of the plan
\* refers to its id, and otherwise the first operator in plan order that
\* does; several referring operators raise no error.
C10_Parent ==
    (ret.op = "parent" /\ HasIds(json)) =>
        /\ ret.out.ok
        /\ ret.out.val = FirstAt(json, ReferringPlaces(json, DocOperator(json, ret.path)))

C10_Witness ==
    /\ ret.op = "parent" /\ ret.path = <<1, 1>> /\ ret.out.ok
    /\ HasIds(json)
    /\ Cardinality(ReferringPlaces(json, DocOperator(json, <<1, 1>>))) >= 2
    /\ <<2, 2>> \in ReferringPlaces(json, DocOperator(json, <<1, 1>>))
    /\ ret.out.val = <<View(DocOperator(json, <<1, 2>>), <<1, 2>>)>>

====
